---------------------------- MODULE Spec2Model ----------------------------
(***************************************************************************)
(* A model of the 3D product viewer: the InteractionManager (hover and     *)
(* selection state, material swaps, scale tweens, pulse loops), the        *)
(* CameraAnimator (orbit, pause/resume, fly-to, reset) and the part of the *)
(* ProductViewer shell that wires them to the frame callback, the pointer  *)
(* events, the OrbitControls events and the resume timers.                 *)
(*                                                                         *)
(* Units.  Time is in milliseconds.  Scales are in thousandths (1000 is    *)
(* scale 1.0).  Lengths are in thousandths of a world unit.  The orbit    *)
(* angle is in microradians, the arguments of sine and cosine are in       *)
(* milliradians.  Every requestAnimationFrame callback is an entry of      *)
(* rafQueue, which keeps the browser's order: callbacks run in the order   *)
(* in which they were registered.                                          *)
(***************************************************************************)
EXTENDS Integers, Sequences, FiniteSets, TLC

VARIABLES
    \* ---- InteractionManager (src/src/three/interaction.js)
    hoveredPart,        \* this.hoveredPart (None or a part)
    selectedPart,       \* this.selectedPart
    highlightedMeshes,  \* this.highlightedMeshes (the "altered" set)
    material,           \* mesh.material, per part's mesh
    originalMaterial,   \* mesh.userData.originalMaterial
    scale,              \* mesh.scale.x (setScalar keeps x = y = z)
    isPulsing,          \* mesh.userData.isPulsing
    pulseTime,          \* mesh.userData.pulseTime, in tenths
    tweenTarget,        \* the targetScale of the animateScale started last
    cursor,             \* canvas.style.cursor
    log,                \* what the handler that ran last did, step by step
    lastOp,             \* the handler that ran last, with its input
    productParts,       \* this.productParts: the list, or nothing at all
    disposed,           \* how often each feedback material's dispose() ran
    thrown,             \* the exception the handler that ran last raised
    \* ---- CameraAnimator (src/src/three/cameraAnimation.js)
    isAutoRotating,     \* this.isAutoRotating
    rotationSpeed,      \* this.rotationSpeed, in tenths of a degree per second
    radius,             \* this.radius
    height,             \* this.height
    angle,              \* this.angle, in microradians
    time,               \* this.time, in milliseconds
    clockRunning,       \* this.clock.running
    clockSince,         \* milliseconds since this.clock.oldTime
    clockElapsed,       \* this.clock.elapsedTime
    \* ---- ProductViewer and the scene it owns (src/unnamed/part_000)
    viewerAutoRotating, \* ProductViewer.isAutoRotating
    cameraPosition,     \* sceneConfig.camera.position
    controlsTarget,     \* sceneConfig.controls.target
    dragging,           \* the controls are between 'start' and 'end'
    panelPart,          \* the part the part-name panel shows
    shell,              \* how far init() got, and what it left behind
    \* ---- the browser
    timers,             \* the pending setTimeout callbacks: time left of each
    rafQueue            \* the pending requestAnimationFrame callbacks

vars == <<hoveredPart, selectedPart, highlightedMeshes, material,
          originalMaterial, scale, isPulsing, pulseTime, tweenTarget, cursor,
          log,
          lastOp, isAutoRotating, rotationSpeed, radius, height, angle, time,
          clockRunning, clockSince, clockElapsed, viewerAutoRotating,
          cameraPosition,
          controlsTarget, dragging, timers, rafQueue, productParts, disposed,
          thrown, panelPart, shell>>

-----------------------------------------------------------------------------
(* Bounds of the model *)

\* the number of parts the scene builder returned
NumParts == 2
\* the most scale tweens pending at once
MaxTweens == 2
\* the most fly-tos pending at once
MaxFlights == 1
\* the most pulse loops pending at once
MaxLoops == 2
\* the most pulse steps a loop takes before the selection changes again
MaxPulseTime == 4

\* the most setTimeout callbacks pending at once
MaxTimers == 1
\* the longest the camera's clock runs, in milliseconds
MaxTime == 2500

\* the intervals between two frame callbacks, in milliseconds: while the
\* pointer drives tweens of 200 and 300 ms, and while the camera is driven
\* over seconds
FrameDts == {100}
CameraFrameDts == {500}
\* where a drag of the orbit controls can leave the camera
UserPositions ==
    {[x |-> 0, y |-> 4000, z |-> 6000], [x |-> -3000, y |-> 2000, z |-> 0]}

\* the most calls of dispose()
MaxDisposals == 2

\* what a caller hands to setRotationSpeed (tenths of a degree per second),
\* setOrbitRadius and setOrbitHeight
Speeds == {-5, 0, 5}
OrbitRadii == {0, 8000}
OrbitHeights == {0, 3000}

Parts == 1..NumParts
None == 0

(* Program constants *)
HoverScale == 1050
SelectScale == 1100
RestScale == 1000
HoverDuration == 200
SelectDuration == 300
PulseAmplitude == 20

-----------------------------------------------------------------------------
(* Arithmetic the code takes from Math *)

Min(a, b) == IF a <= b THEN a ELSE b
Abs(a) == IF a < 0 THEN -a ELSE a

\* pi, in milliradians
PiMilli == 3142

\* Math.sin of x milliradians, in thousandths: Bhaskara's rational
\* approximation on [0, pi], odd and periodic outside it.
SinHalfTurn(x) ==
    LET q == (x * (PiMilli - x)) \div 100
    IN  (16000 * q) \div (493610 - 4 * q)

SinMilli(x) ==
    LET y == x % (2 * PiMilli)
    IN  IF y <= PiMilli THEN SinHalfTurn(y) ELSE -SinHalfTurn(y - PiMilli)

CosMilli(x) == SinMilli(x + PiMilli \div 2)

\* Math.atan of t thousandths, 0 <= t <= 1000, in milliradians
AtanUnit(t) == (t * (785 + (273 * (1000 - t)) \div 1000)) \div 1000

\* Math.atan2(z, x), in microradians, in (-pi, pi]
Atan2Micro(z, x) ==
    LET ax == Abs(x)
        az == Abs(z)
        base == IF ax = 0 /\ az = 0 THEN 0
                ELSE IF ax >= az THEN AtanUnit((az * 1000) \div ax)
                ELSE PiMilli \div 2 - AtanUnit((ax * 1000) \div az)
        turned == IF x >= 0 THEN base ELSE PiMilli - base
    IN  1000 * (IF z >= 0 THEN turned ELSE -turned)

\* Math.sqrt, rounded down: the largest r in lo..hi with r * r <= n
RECURSIVE SqrtBetween(_, _, _)
SqrtBetween(n, lo, hi) ==
    IF lo >= hi THEN lo
    ELSE LET mid == (lo + hi + 1) \div 2
         IN  IF mid * mid <= n THEN SqrtBetween(n, mid, hi)
                               ELSE SqrtBetween(n, lo, mid - 1)

Sqrt(n) == SqrtBetween(n, 0, 40000)

-----------------------------------------------------------------------------
(* InteractionManager.  The handlers are sequences of steps on a record s  *)
(* that holds the manager's fields, the meshes' fields and the callback    *)
(* queue; each step is an operator from such a record to the next one.     *)

\* one entry of log: the step, the mesh it acted on, the value it wrote, and
\* hoveredPart and selectedPart when it ran
Entry(s, op, mesh, val) ==
    [op |-> op, mesh |-> mesh, val |-> val,
     hov |-> s.hoveredPart, sel |-> s.selectedPart]

\* the materials a mesh can carry: the one the scene builder gave it, a
\* clone of hoverMaterial, a clone of selectedMaterial
MatOriginal == 0
MatHover == 1
MatSelected == 2
\* userData.originalMaterial before anything was stored
MatUnset == -1

Logged(s, op, mesh, val) ==
    [s EXCEPT !.log = Append(@, Entry(s, op, mesh, val))]

\* a pending requestAnimationFrame callback: the closure of animateScale's
\* animate (kind "scale") or of animatePulse's pulse (kind "pulse")
ScaleCallback(mesh, startScale, targetScale, duration) ==
    [kind |-> "scale", mesh |-> mesh, startScale |-> startScale,
     targetScale |-> targetScale, duration |-> duration, elapsed |-> 0]

PulseCallback(mesh) ==
    [kind |-> "pulse", mesh |-> mesh, startScale |-> 0,
     targetScale |-> 0, duration |-> 0, elapsed |-> 0]

\* the ease-out curve of animateScale: the scale after `elapsed` of `duration`
EasedScale(startScale, targetScale, duration, elapsed) ==
    LET e == Min(elapsed, duration)
        r == duration - e
        d == duration \div 10
        den == d * d * d
        num == den - (r \div 10) * (r \div 10) * (r \div 10)
    IN  IF e >= duration
        THEN targetScale
        ELSE startScale + ((targetScale - startScale) * num) \div den

\* animateScale(mesh, targetScale, duration): the first animate() runs at
\* once with elapsed 0, writes startScale back and asks for the next frame
AnimateScale(s, mesh, targetScale, duration) ==
    LET startScale == s.scale[mesh]
        t == Logged(s, "animateScale", mesh, targetScale)
    IN  [t EXCEPT
           !.tweenTarget[mesh] = targetScale,
           !.scale[mesh] = EasedScale(startScale, targetScale, duration, 0),
           !.rafQueue = Append(@, ScaleCallback(mesh, startScale,
                                                targetScale, duration))]

\* the scale the pulse writes at pulseTime k (tenths of a radian)
PulseScale(k) == SelectScale + (SinMilli(100 * k) * PulseAmplitude) \div 1000

\* one run of pulse(): returns at once when the flag is down
PulseStep(s, mesh) ==
    IF ~s.isPulsing[mesh]
    THEN s
    ELSE [s EXCEPT !.pulseTime[mesh] = @ + 1,
                   !.scale[mesh] = PulseScale(s.pulseTime[mesh] + 1),
                   !.rafQueue = Append(@, PulseCallback(mesh))]

\* animatePulse(mesh)
AnimatePulse(s, mesh) ==
    LET t == Logged(s, "animatePulse", mesh, 0)
    IN  PulseStep([t EXCEPT !.isPulsing[mesh] = TRUE,
                            !.pulseTime[mesh] = 0], mesh)

\* stopPulse(mesh) that leaves the flag up
KeepPulsing(s, mesh) == Logged(s, "stopPulse", mesh, 0)

\* stopPulse(mesh)
StopPulse(s, mesh) ==
    [Logged(s, "stopPulse", mesh, 0) EXCEPT !.isPulsing[mesh] = FALSE]

\* mesh.material = mesh.userData.originalMaterial, when one is stored
RestoreMaterial(s, mesh) ==
    IF s.originalMaterial[mesh] # MatUnset
    THEN [Logged(s, "restore", mesh, s.originalMaterial[mesh])
            EXCEPT !.material[mesh] = s.originalMaterial[mesh]]
    ELSE s

\* this.onPartSelect(part): ProductViewer.handlePartSelect writes the part's
\* name and description into the panel
OnPartSelect(s, part) ==
    [Logged(s, "onPartSelect", part, 0) EXCEPT !.panelPart = part]

\* clearHover() without its test of selectedPart
ClearHoverIgnoringSelection(s) ==
    LET mesh == s.hoveredPart
        body ==
            IF s.hoveredPart # None
            THEN LET s1 == RestoreMaterial(s, mesh)
                     s2 == AnimateScale(s1, mesh, RestScale, HoverDuration)
                 IN  [Logged(s2, "unhighlight", mesh, 0)
                        EXCEPT !.highlightedMeshes = @ \ {mesh}]
            ELSE s
        done == [body EXCEPT !.hoveredPart = None]
    IN  Logged(done, "clearHoverEnd", mesh, 0)

\* clearHover()
ClearHover(s) ==
    LET mesh == s.hoveredPart
        body ==
            IF s.hoveredPart # None /\ s.hoveredPart # s.selectedPart
            THEN LET s1 == RestoreMaterial(s, mesh)
                     s2 == AnimateScale(s1, mesh, RestScale, HoverDuration)
                 IN  [Logged(s2, "unhighlight", mesh, 0)
                        EXCEPT !.highlightedMeshes = @ \ {mesh}]
            ELSE s
        done == [body EXCEPT !.hoveredPart = None]
    IN  Logged(done, "clearHoverEnd", mesh, 0)

\* handleHover(part) with clearHover() moved behind the new hover's effect
HandleHoverThenClear(s, part) ==
    LET s3 == [s EXCEPT !.originalMaterial[part] = s.material[part]]
        s4 == [Logged(s3, "setMaterial", part, MatHover)
                 EXCEPT !.material[part] = MatHover]
        s5 == AnimateScale(s4, part, HoverScale, HoverDuration)
        s6 == [Logged(s5, "highlight", part, 0)
                 EXCEPT !.highlightedMeshes = @ \cup {part}]
        s7 == [ClearHover(s6) EXCEPT !.hoveredPart = part]
    IN  OnPartSelect(s7, part)

\* handleHover(part)
HandleHover(s, part) ==
    LET s1 == ClearHover(s)
        s2 == [s1 EXCEPT !.hoveredPart = part]
        s3 == [s2 EXCEPT !.originalMaterial[part] = s2.material[part]]
        s4 == [Logged(s3, "setMaterial", part, MatHover)
                 EXCEPT !.material[part] = MatHover]
        s5 == AnimateScale(s4, part, HoverScale, HoverDuration)
        s6 == [Logged(s5, "highlight", part, 0)
                 EXCEPT !.highlightedMeshes = @ \cup {part}]
    IN  OnPartSelect(s6, part)

\* clearSelection() that takes the mesh out of the altered set even when it
\* is hovered
ClearSelectionUnhighlightsAlways(s) ==
    LET mesh == s.selectedPart
        body ==
            IF s.selectedPart # None
            THEN LET s1 == IF s.hoveredPart # s.selectedPart
                           THEN RestoreMaterial(s, mesh)
                           ELSE s
                     s2 == AnimateScale(s1, mesh, RestScale, SelectDuration)
                     s3 == StopPulse(s2, mesh)
                 IN  [Logged(s3, "unhighlight", mesh, 0)
                        EXCEPT !.highlightedMeshes = @ \ {mesh}]
            ELSE s
        done == [body EXCEPT !.selectedPart = None]
    IN  Logged(done, "clearSelectionEnd", mesh, 0)

\* clearSelection() that restores the material even when the mesh is hovered
ClearSelectionIgnoringHover(s) ==
    LET mesh == s.selectedPart
        body ==
            IF s.selectedPart # None
            THEN LET s1 == RestoreMaterial(s, mesh)
                     s2 == AnimateScale(s1, mesh, RestScale, SelectDuration)
                     s3 == StopPulse(s2, mesh)
                 IN  IF s.hoveredPart # s.selectedPart
                     THEN [Logged(s3, "unhighlight", mesh, 0)
                             EXCEPT !.highlightedMeshes = @ \ {mesh}]
                     ELSE s3
            ELSE s
        done == [body EXCEPT !.selectedPart = None]
    IN  Logged(done, "clearSelectionEnd", mesh, 0)

\* clearSelection()
ClearSelection(s) ==
    LET mesh == s.selectedPart
        body ==
            IF s.selectedPart # None
            THEN LET s1 == IF s.hoveredPart # s.selectedPart
                           THEN RestoreMaterial(s, mesh)
                           ELSE s
                     s2 == AnimateScale(s1, mesh, RestScale, SelectDuration)
                     s3 == StopPulse(s2, mesh)
                 IN  IF s.hoveredPart # s.selectedPart
                     THEN [Logged(s3, "unhighlight", mesh, 0)
                             EXCEPT !.highlightedMeshes = @ \ {mesh}]
                     ELSE s3
            ELSE s
        done == [body EXCEPT !.selectedPart = None]
    IN  Logged(done, "clearSelectionEnd", mesh, 0)

\* handleSelection(part) without its call of animatePulse
HandleSelectionWithoutPulse(s, part) ==
    LET s1 == ClearSelection(s)
        s2 == [s1 EXCEPT !.selectedPart = part]
        s3 == IF s2.originalMaterial[part] = MatUnset
              THEN [s2 EXCEPT !.originalMaterial[part] = s2.material[part]]
              ELSE s2
        s4 == [Logged(s3, "setMaterial", part, MatSelected)
                 EXCEPT !.material[part] = MatSelected]
        s5 == AnimateScale(s4, part, SelectScale, SelectDuration)
        s7 == [Logged(s5, "highlight", part, 0)
                 EXCEPT !.highlightedMeshes = @ \cup {part}]
    IN  OnPartSelect(s7, part)

\* handleSelection(part) without its call of onPartSelect
HandleSelectionSilent(s, part) ==
    LET s1 == ClearSelection(s)
        s2 == [s1 EXCEPT !.selectedPart = part]
        s3 == IF s2.originalMaterial[part] = MatUnset
              THEN [s2 EXCEPT !.originalMaterial[part] = s2.material[part]]
              ELSE s2
        s4 == [Logged(s3, "setMaterial", part, MatSelected)
                 EXCEPT !.material[part] = MatSelected]
        s5 == AnimateScale(s4, part, SelectScale, SelectDuration)
        s6 == AnimatePulse(s5, part)
    IN  [Logged(s6, "highlight", part, 0)
           EXCEPT !.highlightedMeshes = @ \cup {part}]

\* handleSelection(part)
HandleSelection(s, part) ==
    LET s1 == ClearSelection(s)
        s2 == [s1 EXCEPT !.selectedPart = part]
        s3 == IF s2.originalMaterial[part] = MatUnset
              THEN [s2 EXCEPT !.originalMaterial[part] = s2.material[part]]
              ELSE s2
        s4 == [Logged(s3, "setMaterial", part, MatSelected)
                 EXCEPT !.material[part] = MatSelected]
        s5 == AnimateScale(s4, part, SelectScale, SelectDuration)
        s6 == AnimatePulse(s5, part)
        s7 == [Logged(s6, "highlight", part, 0)
                 EXCEPT !.highlightedMeshes = @ \cup {part}]
    IN  OnPartSelect(s7, part)

\* dispose()
Dispose(s) ==
    LET s1 == Logged(s, "disposeMaterial", None, MatHover)
        s2 == Logged(s1, "disposeMaterial", None, MatSelected)
    IN  [s2 EXCEPT !.disposed.hover = @ + 1,
                   !.disposed.selected = @ + 1,
                   !.highlightedMeshes = {}]

-----------------------------------------------------------------------------
(* CameraAnimator *)

Vec(x, y, z) == [x |-> x, y |-> y, z |-> z]

\* camera.position as initScene sets it, which the constructor clones into
\* this.initialPosition
InitialPosition == Vec(5000, 3000, 5000)
\* this.initialTarget
InitialTarget == Vec(0, 0, 0)
\* the point update() aims the camera and the controls at
OrbitTarget == Vec(0, 1000, 0)

DefaultRotationSpeed == 5
DefaultRadius == 8000
DefaultHeight == 3000
RadialAmplitude == 1000
VerticalAmplitude == 500
ResetDuration == 1000
ResumeDelay == 2000
\* microradians in a degree: Math.PI / 180
MicroRadPerDegree == 17453

\* Vector3.lerpVectors(a, b, alpha), alpha in thousandths
Lerp(a, b, alpha) ==
    Vec(a.x + ((b.x - a.x) * alpha) \div 1000,
        a.y + ((b.y - a.y) * alpha) \div 1000,
        a.z + ((b.z - a.z) * alpha) \div 1000)

\* the ease-in-out curve of animateToPosition, in thousandths
EaseInOut(elapsed, duration) ==
    LET progress == Min((elapsed * 1000) \div duration, 1000)
        back == (2000 - 2 * progress) \div 10
    IN  IF progress < 500
        THEN (2 * progress * progress) \div 1000
        ELSE 1000 - (back * back * back) \div 2000

\* clock.getDelta(): the first call starts the clock and returns 0
GetDelta(s) == IF s.clockRunning THEN s.clockSince ELSE 0

AfterGetDelta(s) ==
    [s EXCEPT !.clockRunning = TRUE, !.clockSince = 0,
              !.clockElapsed = @ + GetDelta(s)]

\* syncAngleWithPosition()
SyncAngleWithPosition(s) ==
    LET currentPos == s.cameraPosition
        angle1 == Atan2Micro(currentPos.z, currentPos.x)
        radius1 == Sqrt(currentPos.x * currentPos.x
                        + currentPos.z * currentPos.z)
        t0 == Logged(s, "sync", None, 0)
        t1 == Logged(t0, "syncAngle", None, angle1)
        t2 == Logged(t1, "syncRadius", None, radius1)
        t == Logged(t2, "syncHeight", None, currentPos.y)
    IN  [t EXCEPT !.angle = angle1,
                  !.radius = radius1,
                  !.height = currentPos.y]

\* update() that turns the orbit the other way
CameraUpdateSubtracting(s) ==
    IF ~s.isAutoRotating
    THEN s
    ELSE LET delta == GetDelta(s)
             time1 == s.time + delta
             angle1 == s.angle
                       - (s.rotationSpeed * delta * MicroRadPerDegree)
                         \div 10000
             dynamicRadius ==
                 s.radius + (SinMilli(time1 \div 5) * RadialAmplitude)
                            \div 1000
             dynamicHeight ==
                 s.height + (CosMilli((3 * time1) \div 10)
                             * VerticalAmplitude) \div 1000
             x == (CosMilli(angle1 \div 1000) * dynamicRadius) \div 1000
             z == (SinMilli(angle1 \div 1000) * dynamicRadius) \div 1000
             t == Logged(AfterGetDelta(s), "cameraUpdate", None, delta)
         IN  [t EXCEPT !.time = time1,
                       !.angle = angle1,
                       !.cameraPosition = Vec(x, dynamicHeight, z),
                       !.controlsTarget = OrbitTarget]

\* update(), called by every frame tick
CameraUpdate(s) ==
    IF ~s.isAutoRotating
    THEN s
    ELSE LET delta == GetDelta(s)
             time1 == s.time + delta
             angle1 == s.angle
                       + (s.rotationSpeed * delta * MicroRadPerDegree)
                         \div 10000
             dynamicRadius ==
                 s.radius + (SinMilli(time1 \div 5) * RadialAmplitude)
                            \div 1000
             dynamicHeight ==
                 s.height + (CosMilli((3 * time1) \div 10)
                             * VerticalAmplitude) \div 1000
             x == (CosMilli(angle1 \div 1000) * dynamicRadius) \div 1000
             z == (SinMilli(angle1 \div 1000) * dynamicRadius) \div 1000
             t == Logged(AfterGetDelta(s), "cameraUpdate", None, delta)
         IN  [t EXCEPT !.time = time1,
                       !.angle = angle1,
                       !.cameraPosition = Vec(x, dynamicHeight, z),
                       !.controlsTarget = OrbitTarget]

\* pauseAutoRotation()
PauseAutoRotation(s) == [s EXCEPT !.isAutoRotating = FALSE]

\* resumeAutoRotation()
ResumeAutoRotation(s) ==
    SyncAngleWithPosition([s EXCEPT !.isAutoRotating = TRUE])

\* the closure of animateToPosition's animate
FlyToCallback(startPosition, targetPosition, startLookAt, targetLookAt, duration) ==
    [kind |-> "flyTo", startPosition |-> startPosition,
     targetPosition |-> targetPosition, startLookAt |-> startLookAt,
     targetLookAt |-> targetLookAt, duration |-> duration, elapsed |-> 0]

\* animate() of animateToPosition without the resynchronization at its end
FlyToStepWithoutSync(s, cb) ==
    LET eased == EaseInOut(cb.elapsed, cb.duration)
        s1 == [Logged(s, "flyToStep", None, eased) EXCEPT
                 !.cameraPosition =
                     Lerp(cb.startPosition, cb.targetPosition, eased),
                 !.controlsTarget =
                     Lerp(cb.startLookAt, cb.targetLookAt, eased)]
    IN  IF cb.elapsed < cb.duration
        THEN [s1 EXCEPT !.rafQueue = Append(@, cb)]
        ELSE Logged(s1, "flyToEnd", None, 0)

\* one run of animate() of animateToPosition for the callback cb
FlyToStep(s, cb) ==
    LET eased == EaseInOut(cb.elapsed, cb.duration)
        s1 == [Logged(s, "flyToStep", None, eased) EXCEPT
                 !.cameraPosition =
                     Lerp(cb.startPosition, cb.targetPosition, eased),
                 !.controlsTarget =
                     Lerp(cb.startLookAt, cb.targetLookAt, eased)]
    IN  IF cb.elapsed < cb.duration
        THEN [s1 EXCEPT !.rafQueue = Append(@, cb)]
        ELSE SyncAngleWithPosition(Logged(s1, "flyToEnd", None, 0))

\* animateToPosition(targetPosition, targetLookAt, duration)
AnimateToPosition(s, targetPosition, targetLookAt, duration) ==
    FlyToStep(Logged(s, "animateToPosition", None, duration),
              FlyToCallback(s.cameraPosition, targetPosition,
                            s.controlsTarget, targetLookAt, duration))

\* reset()
CameraReset(s) ==
    AnimateToPosition([Logged(s, "reset", None, 0) EXCEPT
                         !.angle = 0, !.time = 0,
                         !.radius = DefaultRadius,
                         !.height = DefaultHeight],
                      InitialPosition, InitialTarget, ResetDuration)

\* setRotationSpeed(speed), setOrbitRadius(radius), setOrbitHeight(height)
SetRotationSpeed(s, speed) == [s EXCEPT !.rotationSpeed = speed]
SetOrbitRadius(s, r) == [s EXCEPT !.radius = r]
SetOrbitHeight(s, h) == [s EXCEPT !.height = h]

\* getState()
GetState(s) ==
    [isAutoRotating |-> s.isAutoRotating, rotationSpeed |-> s.rotationSpeed,
     radius |-> s.radius, height |-> s.height, angle |-> s.angle,
     time |-> s.time]

\* JavaScript's  v || d  on a number: 0 is falsy
OrDefault(v, d) == IF v = 0 THEN d ELSE v

\* setState(state); the log keeps what it was handed
SetState(s, state) ==
    LET s1 == Logged(s, "isAutoRotating", None,
                     IF state.isAutoRotating THEN 1 ELSE 0)
        s2 == Logged(s1, "rotationSpeed", None, state.rotationSpeed)
        s3 == Logged(s2, "radius", None, state.radius)
        s4 == Logged(s3, "height", None, state.height)
        s5 == Logged(s4, "angle", None, state.angle)
        s6 == Logged(s5, "time", None, state.time)
    IN  [s6 EXCEPT
           !.isAutoRotating = state.isAutoRotating \/ FALSE,
           !.rotationSpeed = OrDefault(state.rotationSpeed,
                                       DefaultRotationSpeed),
           !.radius = OrDefault(state.radius, DefaultRadius),
           !.height = OrDefault(state.height, DefaultHeight),
           !.angle = OrDefault(state.angle, 0),
           !.time = OrDefault(state.time, 0)]

-----------------------------------------------------------------------------
(* The state as one record, and back *)

St ==
    [hoveredPart |-> hoveredPart, selectedPart |-> selectedPart,
     highlightedMeshes |-> highlightedMeshes, material |-> material,
     originalMaterial |-> originalMaterial, scale |-> scale,
     isPulsing |-> isPulsing, pulseTime |-> pulseTime,
     tweenTarget |-> tweenTarget, cursor |-> cursor, log |-> log,
     lastOp |-> lastOp, isAutoRotating |-> isAutoRotating,
     rotationSpeed |-> rotationSpeed, radius |-> radius, height |-> height,
     angle |-> angle, time |-> time, clockRunning |-> clockRunning,
     clockSince |-> clockSince, clockElapsed |-> clockElapsed,
     viewerAutoRotating |-> viewerAutoRotating,
     cameraPosition |-> cameraPosition, controlsTarget |-> controlsTarget,
     dragging |-> dragging, timers |-> timers, rafQueue |-> rafQueue,
     productParts |-> productParts, disposed |-> disposed, thrown |-> thrown,
     panelPart |-> panelPart, shell |-> shell]

Commit(t) ==
    /\ hoveredPart' = t.hoveredPart
    /\ selectedPart' = t.selectedPart
    /\ highlightedMeshes' = t.highlightedMeshes
    /\ material' = t.material
    /\ originalMaterial' = t.originalMaterial
    /\ scale' = t.scale
    /\ isPulsing' = t.isPulsing
    /\ pulseTime' = t.pulseTime
    /\ tweenTarget' = t.tweenTarget
    /\ cursor' = t.cursor
    /\ log' = t.log
    /\ lastOp' = t.lastOp
    /\ isAutoRotating' = t.isAutoRotating
    /\ rotationSpeed' = t.rotationSpeed
    /\ radius' = t.radius
    /\ height' = t.height
    /\ angle' = t.angle
    /\ time' = t.time
    /\ clockRunning' = t.clockRunning
    /\ clockSince' = t.clockSince
    /\ clockElapsed' = t.clockElapsed
    /\ viewerAutoRotating' = t.viewerAutoRotating
    /\ cameraPosition' = t.cameraPosition
    /\ controlsTarget' = t.controlsTarget
    /\ dragging' = t.dragging
    /\ timers' = t.timers
    /\ rafQueue' = t.rafQueue
    /\ productParts' = t.productParts
    /\ disposed' = t.disposed
    /\ thrown' = t.thrown
    /\ panelPart' = t.panelPart
    /\ shell' = t.shell

\* a handler starts: nothing logged yet, nothing thrown yet
Begin(s, op, arg) ==
    [s EXCEPT !.log = << >>, !.lastOp = [op |-> op, arg |-> arg],
              !.thrown = ""]

-----------------------------------------------------------------------------
(* InteractionManager's event handlers.  `hit` is the part whose mesh the  *)
(* raycaster returns first, None when the ray meets no part's mesh.        *)

\* handleMouseMove that leaves the hover of the selected part in place when
\* the ray meets nothing
HandleMouseMoveKeepsSelectedHover(s, hit) ==
    IF hit # None
    THEN LET s1 == IF hit # s.hoveredPart THEN HandleHover(s, hit) ELSE s
         IN  [s1 EXCEPT !.cursor = "pointer"]
    ELSE LET s1 == IF s.hoveredPart # None /\ s.hoveredPart # s.selectedPart
                   THEN ClearHover(s)
                   ELSE s
         IN  [s1 EXCEPT !.cursor = "default"]

\* this.productParts.map(...) and raycaster.intersectObjects(meshes): of
\* the part under the pointer, the ray meets the mesh only when the list
\* holds the part
Intersected(s, under) ==
    IF under \in s.productParts.list THEN under ELSE None

\* this.productParts.map raises when there is no list
Raise(s) == [s EXCEPT !.thrown = "TypeError"]

\* handleMouseMove that hovers the part it hits even when that part is the
\* hovered one
HandleMouseMoveAlwaysHovering(s, under) ==
    LET hit == Intersected(s, under)
    IN  IF ~s.productParts.defined
        THEN Raise(s)
        ELSE IF hit # None
        THEN [HandleHover(s, hit) EXCEPT !.cursor = "pointer"]
        ELSE LET s1 == IF s.hoveredPart # None THEN ClearHover(s) ELSE s
             IN  [s1 EXCEPT !.cursor = "default"]

\* handleMouseMove(event, canvas)
HandleMouseMove(s, under) ==
    LET hit == Intersected(s, under)
    IN  IF ~s.productParts.defined
        THEN Raise(s)
        ELSE IF hit # None
        THEN LET s1 == IF hit # s.hoveredPart THEN HandleHover(s, hit) ELSE s
             IN  [s1 EXCEPT !.cursor = "pointer"]
        ELSE LET s1 == IF s.hoveredPart # None THEN ClearHover(s) ELSE s
             IN  [s1 EXCEPT !.cursor = "default"]

\* handleClick that clears the hover before it selects
HandleClickClearingHover(s, under) ==
    LET hit == Intersected(s, under)
        s1 == ClearHover(s)
    IN  IF ~s.productParts.defined
        THEN Raise(s)
        ELSE IF hit # None THEN HandleSelection(s1, hit)
        ELSE ClearSelection(s1)

\* handleClick(event, canvas)
HandleClick(s, under) ==
    LET hit == Intersected(s, under)
    IN  IF ~s.productParts.defined
        THEN Raise(s)
        ELSE IF hit # None THEN HandleSelection(s, hit)
        ELSE ClearSelection(s)

\* updateMaterialAnimations(): every highlighted mesh's material gets its
\* emissiveIntensity written
RECURSIVE UpdateMaterialAnimations(_, _)
UpdateMaterialAnimations(s, meshes) ==
    IF meshes = {}
    THEN s
    ELSE LET mesh == CHOOSE m \in meshes : \A n \in meshes : m <= n
         IN  UpdateMaterialAnimations(
                 Logged(s, "emissive", mesh, s.material[mesh]),
                 meshes \ {mesh})

\* update() of the InteractionManager
InteractionUpdate(s) == UpdateMaterialAnimations(s, s.highlightedMeshes)

-----------------------------------------------------------------------------
(* The frame *)

\* dt milliseconds pass: Date.now() and the clock move on, the timers run
\* down
Elapse(s, dt) ==
    [s EXCEPT
       !.rafQueue = [i \in 1..Len(s.rafQueue) |->
                       IF s.rafQueue[i].kind = "pulse"
                       THEN s.rafQueue[i]
                       ELSE [s.rafQueue[i] EXCEPT !.elapsed = @ + dt]],
       !.timers = [i \in 1..Len(s.timers) |-> s.timers[i] - dt],
       !.clockSince = IF s.clockRunning THEN @ + dt ELSE @]

\* one run of animate() of animateScale for the callback cb
ScaleStep(s, cb) ==
    LET s1 == [s EXCEPT !.scale[cb.mesh] =
                   EasedScale(cb.startScale, cb.targetScale, cb.duration,
                              cb.elapsed)]
    IN  IF cb.elapsed < cb.duration
        THEN [s1 EXCEPT !.rafQueue = Append(@, cb)]
        ELSE s1

\* one pending callback runs
RunCallback(s, cb) ==
    CASE cb.kind = "scale" -> ScaleStep(s, cb)
      [] cb.kind = "pulse" -> PulseStep(s, cb.mesh)
      [] cb.kind = "flyTo" -> FlyToStep(s, cb)

\* the element of a one-element set: what it is applied to is computed once
Only(S) == CHOOSE x \in S : TRUE

RECURSIVE RunCallbacks(_, _)
RunCallbacks(s, queue) ==
    IF queue = << >>
    THEN s
    ELSE Only({RunCallbacks(t, Tail(queue)) :
                  t \in {RunCallback(s, Head(queue))}})

\* ProductViewer.animate(), then the callbacks registered after it
AnimationFrame(s, dt) ==
    LET s0 == Elapse(Begin(s, "frame", dt), dt)
        s1 == CameraUpdate(s0)
        s2 == InteractionUpdate(s1)
    IN  Only({RunCallbacks([t EXCEPT !.rafQueue = << >>], t.rafQueue) :
                 t \in {s2}})

-----------------------------------------------------------------------------
(* ProductViewer: the shell's handlers *)

\* the 'start' listener of the controls
OnControlsStart(s) == PauseAutoRotation([s EXCEPT !.dragging = TRUE])

\* the 'end' listener of the controls: setTimeout(..., 2000)
OnControlsEnd(s) ==
    [s EXCEPT !.dragging = FALSE, !.timers = Append(@, ResumeDelay)]

\* the timer's callback without its test of this.isAutoRotating
OnResumeTimerUnconditional(s) ==
    ResumeAutoRotation([s EXCEPT !.timers = Tail(@)])

\* the timer's callback
OnResumeTimer(s) ==
    LET s1 == [s EXCEPT !.timers = Tail(@)]
    IN  IF s1.viewerAutoRotating THEN ResumeAutoRotation(s1) ELSE s1

\* toggleAutoRotate()
ToggleAutoRotate(s) ==
    LET s1 == [s EXCEPT !.viewerAutoRotating = ~@]
    IN  IF s1.viewerAutoRotating
        THEN ResumeAutoRotation(s1)
        ELSE PauseAutoRotation(s1)

\* resetView(): controls.reset() puts camera and target back where the
\* controls found them at construction, then cameraAnimator.reset()
ResetView(s) ==
    CameraReset([s EXCEPT !.cameraPosition = InitialPosition,
                          !.controlsTarget = InitialTarget])

\* the controls move the camera while the user drags
OnControlsChange(s, position) == [s EXCEPT !.cameraPosition = position]

-----------------------------------------------------------------------------
(* The initial states *)

\* the state ProductViewer.init() leaves
Constructed ==
    [hoveredPart |-> None, selectedPart |-> None, highlightedMeshes |-> {},
     material |-> [m \in Parts |-> MatOriginal],
     originalMaterial |-> [m \in Parts |-> MatUnset],
     scale |-> [m \in Parts |-> RestScale],
     isPulsing |-> [m \in Parts |-> FALSE],
     pulseTime |-> [m \in Parts |-> 0],
     tweenTarget |-> [m \in Parts |-> RestScale],
     cursor |-> "", log |-> << >>,
     lastOp |-> [op |-> "init", arg |-> 0],
     isAutoRotating |-> TRUE, rotationSpeed |-> DefaultRotationSpeed,
     radius |-> DefaultRadius, height |-> DefaultHeight, angle |-> 0,
     time |-> 0, clockRunning |-> FALSE, clockSince |-> 0,
     clockElapsed |-> 0,
     viewerAutoRotating |-> TRUE, cameraPosition |-> InitialPosition,
     controlsTarget |-> InitialTarget, dragging |-> FALSE,
     timers |-> << >>, rafQueue |-> << >>,
     productParts |-> [defined |-> TRUE, list |-> Parts],
     disposed |-> [hover |-> 0, selected |-> 0],
     thrown |-> "", panelPart |-> None,
     shell |-> [phase |-> "running", controllers |-> TRUE,
                listeners |-> TRUE, animating |-> TRUE, errorsShown |-> 0]]

SetVars(t) ==
    /\ hoveredPart = t.hoveredPart
    /\ selectedPart = t.selectedPart
    /\ highlightedMeshes = t.highlightedMeshes
    /\ material = t.material
    /\ originalMaterial = t.originalMaterial
    /\ scale = t.scale
    /\ isPulsing = t.isPulsing
    /\ pulseTime = t.pulseTime
    /\ tweenTarget = t.tweenTarget
    /\ cursor = t.cursor
    /\ log = t.log
    /\ lastOp = t.lastOp
    /\ isAutoRotating = t.isAutoRotating
    /\ rotationSpeed = t.rotationSpeed
    /\ radius = t.radius
    /\ height = t.height
    /\ angle = t.angle
    /\ time = t.time
    /\ clockRunning = t.clockRunning
    /\ clockSince = t.clockSince
    /\ clockElapsed = t.clockElapsed
    /\ viewerAutoRotating = t.viewerAutoRotating
    /\ cameraPosition = t.cameraPosition
    /\ controlsTarget = t.controlsTarget
    /\ dragging = t.dragging
    /\ timers = t.timers
    /\ rafQueue = t.rafQueue
    /\ productParts = t.productParts
    /\ disposed = t.disposed
    /\ thrown = t.thrown
    /\ panelPart = t.panelPart
    /\ shell = t.shell

\* the viewer as constructed
CameraInit == SetVars(Constructed)

\* the viewer with auto-rotation switched off by the button before the first
\* frame: from here the frame tick leaves the camera alone
Init == SetVars([ToggleAutoRotate(Constructed) EXCEPT !.log = << >>])

\* the viewer with the button pressed, and each part list a caller can hand
\* to the InteractionManager: none, an empty one, the scene builder's
PartLists ==
    {[defined |-> FALSE, list |-> {}], [defined |-> TRUE, list |-> {}],
     [defined |-> TRUE, list |-> Parts]}

PartListInit ==
    \E pp \in PartLists :
        SetVars([ToggleAutoRotate(Constructed) EXCEPT !.log = << >>,
                                                      !.productParts = pp])

\* the page when DOMContentLoaded fires: nothing of the viewer exists yet
BeforeInit ==
    [Constructed EXCEPT
       !.shell = [phase |-> "new", controllers |-> FALSE,
                  listeners |-> FALSE, animating |-> FALSE,
                  errorsShown |-> 0]]

PageInit == SetVars(BeforeInit)

\* showError(message)
ShowError(s) ==
    [Logged(s, "showError", None, 0) EXCEPT !.shell.errorsShown = @ + 1]

\* animate() as init() calls it: it asks for the next frame, then updates
FirstAnimate(s) ==
    InteractionUpdate(CameraUpdate([s EXCEPT !.shell.animating = TRUE]))

\* init() that starts the frame loop before anything can fail
InitViewerAnimatingFirst(s, outcome) ==
    IF outcome \in {"noCanvas", "sceneError"}
    THEN [ShowError([s EXCEPT !.shell.animating = TRUE])
            EXCEPT !.shell.phase = "failed"]
    ELSE LET s1 == [s EXCEPT !.shell.controllers = TRUE]
             s2 == [s1 EXCEPT !.shell.listeners = TRUE]
         IN  [FirstAnimate(s2) EXCEPT !.shell.phase = "running"]

\* init(): the canvas is missing, or initScene throws, or all goes well
InitViewer(s, outcome) ==
    IF outcome \in {"noCanvas", "sceneError"}
    THEN [ShowError(s) EXCEPT !.shell.phase = "failed"]
    ELSE LET s1 == [s EXCEPT !.shell.controllers = TRUE]
             s2 == [s1 EXCEPT !.shell.listeners = TRUE]
         IN  [FirstAnimate(s2) EXCEPT !.shell.phase = "running"]

-----------------------------------------------------------------------------
(* The actions *)

\* the frame can run: no timer is overdue, and the model's bounds hold
CanElapse(dt) ==
    /\ \A i \in 1..Len(timers) : timers[i] >= dt
    /\ \A m \in Parts : isPulsing[m] => pulseTime[m] < MaxPulseTime
    /\ clockElapsed + clockSince + dt <= MaxTime

\* the callbacks of one kind in a queue
RECURSIVE CountKind(_, _)
CountKind(queue, kinds) ==
    IF queue = << >> THEN 0
    ELSE (IF Head(queue).kind \in kinds THEN 1 ELSE 0)
         + CountKind(Tail(queue), kinds)

\* the model's bounds on the callback queue
WithinBounds(t) ==
    /\ CountKind(t.rafQueue, {"scale"}) <= MaxTweens
    /\ CountKind(t.rafQueue, {"flyTo"}) <= MaxFlights
    /\ CountKind(t.rafQueue, {"pulse"}) <= MaxLoops

Frame(dt) ==
    /\ shell.animating
    /\ CanElapse(dt)
    /\ \E t \in {AnimationFrame(St, dt)} : Commit(t)

PointerMove(hit) ==
    LET t == HandleMouseMove(Begin(St, "move", hit), hit)
    IN  /\ shell.listeners
        /\ WithinBounds(t)
        /\ Commit(t)

PointerClick(hit) ==
    LET t == HandleClick(Begin(St, "click", hit), hit)
    IN  /\ shell.listeners
        /\ WithinBounds(t)
        /\ Commit(t)

ControlsStart ==
    /\ ~dragging
    /\ Commit(OnControlsStart(Begin(St, "start", 0)))

ControlsEnd ==
    /\ dragging
    /\ Len(timers) < MaxTimers
    /\ Commit(OnControlsEnd(Begin(St, "end", 0)))

ControlsChange(position) ==
    /\ dragging
    /\ Commit(OnControlsChange(Begin(St, "change", 0), position))

ResumeTimer ==
    /\ timers # << >>
    /\ Head(timers) = 0
    /\ Commit(OnResumeTimer(Begin(St, "timer", 0)))

AutoRotateClick ==
    LET t == ToggleAutoRotate(Begin(St, "toggle", 0))
    IN  Commit(t)

ResetClick ==
    LET t == ResetView(Begin(St, "resetView", 0))
    IN  /\ WithinBounds(t)
        /\ Commit(t)

\* interactionManager.dispose()
DisposeCall ==
    /\ shell.controllers
    /\ disposed.hover < MaxDisposals
    /\ Commit(Dispose(Begin(St, "dispose", 0)))

\* new ProductViewer(), once, when the page has loaded
ViewerInit(outcome) ==
    /\ shell.phase = "new"
    /\ Commit(InitViewer(Begin(St, "init", 0), outcome))

CallSetRotationSpeed(speed) ==
    /\ shell.controllers
    /\ Commit(SetRotationSpeed(Begin(St, "setRotationSpeed", speed), speed))

CallSetOrbitRadius(r) ==
    /\ shell.controllers
    /\ Commit(SetOrbitRadius(Begin(St, "setOrbitRadius", r), r))

CallSetOrbitHeight(h) ==
    /\ shell.controllers
    /\ Commit(SetOrbitHeight(Begin(St, "setOrbitHeight", h), h))

CallPauseAutoRotation ==
    /\ shell.controllers
    /\ isAutoRotating
    /\ Commit(PauseAutoRotation(Begin(St, "pauseAutoRotation", 0)))

\* cameraAnimator.setState(cameraAnimator.getState())
SaveAndRestore ==
    /\ shell.controllers
    /\ Commit(SetState(Begin(St, "setState", 0), GetState(St)))

Next ==
    \/ \E dt \in FrameDts : Frame(dt)
    \/ \E hit \in Parts \cup {None} : PointerMove(hit)
    \/ \E hit \in Parts \cup {None} : PointerClick(hit)

CameraNext ==
    \/ \E dt \in CameraFrameDts : Frame(dt)
    \/ ControlsStart
    \/ ControlsEnd
    \/ \E position \in UserPositions : ControlsChange(position)
    \/ ResumeTimer
    \/ AutoRotateClick
    \/ ResetClick

\* the controls' events, the timers and the frames alone
OverrideNext ==
    \/ \E dt \in CameraFrameDts : Frame(dt)
    \/ ControlsStart
    \/ ControlsEnd
    \/ \E position \in UserPositions : ControlsChange(position)
    \/ ResumeTimer

\* the pointer over the first part or over none, the frames, and dispose()
DisposeNext ==
    \/ \E dt \in FrameDts : Frame(dt)
    \/ \E hit \in {1, None} : PointerMove(hit)
    \/ \E hit \in {1, None} : PointerClick(hit)
    \/ DisposeCall

\* the page from its load on
PageNext ==
    \/ \E outcome \in {"ok", "noCanvas", "sceneError"} : ViewerInit(outcome)
    \/ \E dt \in FrameDts : Frame(dt)
    \/ \E hit \in {1, None} : PointerMove(hit)
    \/ \E hit \in {1, None} : PointerClick(hit)

\* the CameraAnimator driven through its own interface
ApiNext ==
    \/ \E dt \in CameraFrameDts : Frame(dt)
    \/ \E speed \in Speeds : CallSetRotationSpeed(speed)
    \/ \E r \in OrbitRadii : CallSetOrbitRadius(r)
    \/ \E h \in OrbitHeights : CallSetOrbitHeight(h)
    \/ SaveAndRestore
    \/ CallPauseAutoRotation

\* the pointer over the first part or over none, and the frames
TweenNext ==
    \/ \E dt \in FrameDts : Frame(dt)
    \/ \E hit \in {1, None} : PointerMove(hit)
    \/ \E hit \in {1, None} : PointerClick(hit)

\* the browser keeps calling the frame callbacks it was asked for
FairFrames == WF_vars(\E dt \in FrameDts : Frame(dt))

Spec == Init /\ [][Next]_vars

TweenSpec == Init /\ [][TweenNext]_vars /\ FairFrames

PartListSpec == PartListInit /\ [][Next]_vars

DisposeSpec == Init /\ [][DisposeNext]_vars

PageSpec == PageInit /\ [][PageNext]_vars

ApiSpec == CameraInit /\ [][ApiNext]_vars

OverrideSpec == CameraInit /\ [][OverrideNext]_vars

CameraSpec == CameraInit /\ [][CameraNext]_vars

-----------------------------------------------------------------------------
(* What the claims speak of *)

\* the pending callbacks of one kind that act on mesh m
RECURSIVE CallbacksOn(_, _, _)
CallbacksOn(queue, kind, m) ==
    IF queue = << >> THEN 0
    ELSE (IF Head(queue).kind = kind /\ Head(queue).mesh = m THEN 1 ELSE 0)
         + CallbacksOn(Tail(queue), kind, m)

PulseLoops(m) == CallbacksOn(rafQueue, "pulse", m)
ScaleTweens(m) == CallbacksOn(rafQueue, "scale", m)

\* the last handler took a step `op`
Did(op) == \E i \in 1..Len(log) : log[i].op = op

-----------------------------------------------------------------------------
\* C1: after any sequence of clicks at most one pulse loop is scheduled for
\* a mesh; a click on the part that is already selected leaves one loop.
C1_AtMostOnePulseLoop == \A m \in Parts : PulseLoops(m) <= 1

\* C2: while the user drags the controls (between 'start' and 'end'), no
\* frame tick runs the orbit: update() neither advances the angle nor
\* places the camera.
C2_OrbitFrozenDuringOverride ==
    (dragging /\ lastOp.op = "frame") => ~Did("cameraUpdate")

\* C3: a mesh whose scale tweens have all finished (and that no pulse
\* drives) has the target of the tween that was started last.
C3_LastTweenWins ==
    \A m \in Parts :
        (ScaleTweens(m) = 0 /\ ~isPulsing[m]) => scale[m] = tweenTarget[m]

\* C4: when the fly-to of reset() has completed, angle = 0, radius = 8,
\* height = 3 and the camera is at the initial pose.
C4_ResetEndsAtDefaults ==
    (lastOp.op = "frame" /\ Did("flyToEnd")) =>
        /\ angle = 0
        /\ radius = DefaultRadius
        /\ height = DefaultHeight
        /\ cameraPosition = InitialPosition

\* C5: a mesh is in the altered set iff it is the hovered or the selected
\* part's mesh; each slot holds at most one part, and they may coincide.
C5_AlteredIffHoveredOrSelected ==
    /\ hoveredPart \in Parts \cup {None}
    /\ selectedPart \in Parts \cup {None}
    /\ highlightedMeshes = {hoveredPart, selectedPart} \ {None}

C5_Witness ==
    /\ lastOp.op = "frame"
    /\ hoveredPart # None
    /\ hoveredPart = selectedPart
    /\ highlightedMeshes = {hoveredPart}

\* C6: every write of the stored original material by clearHover or
\* clearSelection is onto a mesh that neither slot references once that
\* clear step has ended.
C6_RestoreOnlyWhenUnreferenced ==
    \A i \in 1..Len(log) :
        log[i].op = "restore" =>
            \E j \in (i + 1)..Len(log) :
                /\ log[j].op \in {"clearHoverEnd", "clearSelectionEnd"}
                /\ \A k \in (i + 1)..(j - 1) :
                       log[k].op \notin {"clearHoverEnd", "clearSelectionEnd"}
                /\ log[j].hov # log[i].mesh
                /\ log[j].sel # log[i].mesh

C6_Witness ==
    /\ \E i \in 1..Len(log) : log[i].op = "restore"
    /\ Did("clearSelectionEnd")

\* C7: when one part is both hovered and selected, clearing the selection
\* leaves it in its hover look (hover material, scale target 1.05) and
\* clearing the hover leaves it in its selected look (selection material,
\* scale target 1.10, pulsing).
C7_ClearKeepsOtherLook ==
    \A i \in 1..Len(log) :
        LET m == log[i].mesh
        IN  /\ (/\ log[i].op = "clearSelectionEnd"
                /\ m # None
                /\ log[i].hov = m
                /\ hoveredPart = m
                /\ selectedPart # m)
               => (material[m] = MatHover /\ tweenTarget[m] = HoverScale)
            /\ (/\ log[i].op = "clearHoverEnd"
                /\ m # None
                /\ log[i].sel = m
                /\ selectedPart = m
                /\ hoveredPart # m)
               => /\ material[m] = MatSelected
                  /\ tweenTarget[m] = SelectScale
                  /\ isPulsing[m]

\* the selected look of part p
SelectedLook(p) ==
    /\ selectedPart = p
    /\ material[p] = MatSelected
    /\ p \in highlightedMeshes
    /\ isPulsing[p]
    /\ PulseLoops(p) >= 1

\* C8: a click on the hovered part gives it the selected look, frames keep
\* that look, and a pointer move that then hits nothing leaves it: the
\* selection material stays, the mesh stays in the altered set, the pulse
\* goes on and no scale tween back to 1.0 starts.
C8_SelectedLookSurvivesHoverClear ==
    [][\A p \in Parts :
         /\ (hoveredPart = p /\ lastOp' = [op |-> "click", arg |-> p])
            => (hoveredPart' = p /\ SelectedLook(p)')
         /\ (hoveredPart = p /\ SelectedLook(p) /\ lastOp'.op = "frame")
            => (hoveredPart' = p /\ SelectedLook(p)')
         /\ (/\ hoveredPart = p
             /\ SelectedLook(p)
             /\ lastOp' = [op |-> "move", arg |-> None])
            => /\ SelectedLook(p)'
               /\ hoveredPart' = None
               /\ PulseLoops(p)' = PulseLoops(p)
               /\ \A i \in 1..Len(log') :
                      log'[i].op \notin {"animateScale", "restore",
                                         "stopPulse", "unhighlight"}
      ]_vars

C8_Witness ==
    /\ lastOp = [op |-> "move", arg |-> None]
    /\ selectedPart # None
    /\ SelectedLook(selectedPart)
    /\ \E i \in 1..Len(log) :
           /\ log[i].op = "clearHoverEnd"
           /\ log[i].mesh = selectedPart

\* the pointer moved from hovered part a onto another part
HoverSwitchedFrom(a) ==
    /\ lastOp.op = "move"
    /\ lastOp.arg \notin {None, a}
    /\ \E i \in 1..Len(log) :
           log[i].op = "clearHoverEnd" /\ log[i].mesh = a

\* a's stored original material was put back before the newly hovered part
\* got the hover material, and a left the altered set
RestoredBeforeHover(a) ==
    /\ \E j, k \in 1..Len(log) :
           /\ j < k
           /\ log[j].op = "restore"
           /\ log[j].mesh = a
           /\ log[j].val = originalMaterial[a]
           /\ log[k].op = "setMaterial"
           /\ log[k].mesh = lastOp.arg
           /\ log[k].val = MatHover
    /\ material[a] = originalMaterial[a]
    /\ a \notin highlightedMeshes

\* C9, as stated: a pointer move from hovered part A onto another part B
\* always restores A's original material before B gets the hover material
\* and takes A out of the altered set.
C9_HoverSwitchRestores ==
    \A a \in Parts : HoverSwitchedFrom(a) => RestoredBeforeHover(a)

\* C9, amended: the same, provided A is not the selected part.
C9_HoverSwitchRestoresUnselected ==
    \A a \in Parts :
        (HoverSwitchedFrom(a) /\ selectedPart # a) => RestoredBeforeHover(a)

C9_Witness ==
    \E a \in Parts :
        HoverSwitchedFrom(a) /\ selectedPart # a /\ RestoredBeforeHover(a)

\* C10: after a pointer move that hits nothing, hoveredPart is none and the
\* cursor is "default"; after one that hits a part, hoveredPart is that part
\* and the cursor is "pointer".
C10_MoveSetsHoverAndCursor ==
    lastOp.op = "move" =>
        IF lastOp.arg = None
        THEN hoveredPart = None /\ cursor = "default"
        ELSE hoveredPart = lastOp.arg /\ cursor = "pointer"

C10_Witness ==
    /\ lastOp = [op |-> "move", arg |-> None]
    /\ Did("clearHoverEnd")
    /\ hoveredPart = None
    /\ cursor = "default"

\* how often the handler whose log is l called onPartSelect with `part`
Calls(l, part) ==
    Cardinality({i \in 1..Len(l) :
                    l[i].op = "onPartSelect" /\ l[i].mesh = part})

\* C11: with no hover and no selection, a click that hits a part makes it
\* the selected part and calls the feedback callback once, with that part
\* and with no other; a click that hits nothing leaves selectedPart none,
\* selects nothing and calls nothing.
C11_FirstClickSelectsAndNotifiesOnce ==
    [][(hoveredPart = None /\ selectedPart = None /\ lastOp'.op = "click")
       => IF lastOp'.arg # None
          THEN /\ selectedPart' = lastOp'.arg
               /\ Calls(log', lastOp'.arg) = 1
               /\ \A p \in (Parts \cup {None}) \ {lastOp'.arg} :
                      Calls(log', p) = 0
          ELSE /\ selectedPart' = None
               /\ highlightedMeshes' = highlightedMeshes
               /\ material' = material
               /\ \A i \in 1..Len(log') :
                      log'[i].op \notin {"setMaterial", "highlight",
                                         "animatePulse", "onPartSelect"}
      ]_vars

C11_Witness ==
    /\ lastOp.op = "click"
    /\ lastOp.arg # None
    /\ selectedPart = lastOp.arg
    /\ Calls(log, lastOp.arg) = 1
    /\ log[1].op = "clearSelectionEnd"
    /\ log[1].mesh = None
    /\ log[1].hov = None

\* the last handler changed hoveredPart or selectedPart
HoverOrSelectionChanged ==
    \/ Did("highlight")
    \/ \E i \in 1..Len(log) :
           /\ log[i].op \in {"clearHoverEnd", "clearSelectionEnd"}
           /\ log[i].mesh # None

\* C12: a handler that changes the hovered or the selected part calls the
\* feedback callback, and the panel never shows a part that is neither
\* hovered nor selected.
C12_PanelFollowsHoverAndSelection ==
    /\ HoverOrSelectionChanged => Did("onPartSelect")
    /\ panelPart # None => panelPart \in {hoveredPart, selectedPart}

\* C13: while the toggle has auto-rotation switched off, the CameraAnimator's
\* isAutoRotating is never true; and the timer that a manipulation's end
\* started resumes the orbit (and resynchronizes it) exactly when
\* auto-rotation is switched on at the moment it fires.
C13_ResumeOnlyWhenEnabled ==
    /\ ~viewerAutoRotating => ~isAutoRotating
    /\ lastOp.op = "timer" =>
           /\ isAutoRotating <=> viewerAutoRotating
           /\ Did("sync") <=> viewerAutoRotating

C13_Witness ==
    /\ lastOp.op = "timer"
    /\ ~viewerAutoRotating
    /\ ~isAutoRotating
    /\ ~dragging

\* C14: the first update() after the orbit resumes advances by one
\* inter-frame interval: the delta it takes from its clock is no longer than
\* the time since the frame before.
C14_ResumeAdvancesOneFrame ==
    lastOp.op = "frame" =>
        \A i \in 1..Len(log) :
            log[i].op = "cameraUpdate" => log[i].val <= lastOp.arg

\* the delta that the update() of the last frame took from its clock
UpdateDelta(l) ==
    LET i == CHOOSE k \in 1..Len(l) : l[k].op = "cameraUpdate"
    IN  l[i].val

\* a frame tick runs update() with the orbit on and no drag in progress
OrbitTick ==
    /\ lastOp'.op = "frame"
    /\ isAutoRotating
    /\ ~dragging
    /\ \E k \in 1..Len(log') : log'[k].op = "cameraUpdate"

\* the tick added rotationSpeed times the elapsed time
AngleAdvanced ==
    angle' = angle + (rotationSpeed * UpdateDelta(log') * MicroRadPerDegree)
                     \div 10000

\* C15, as stated: every such tick adds rotationSpeed times the elapsed time
\* to the angle and never leaves the angle smaller than it was.
C15_AngleNeverDecreases ==
    [][OrbitTick => (AngleAdvanced /\ angle' >= angle)]_vars

\* C15, amended: the same, provided rotationSpeed is not negative.
C15_AngleNeverDecreasesForward ==
    [][OrbitTick => /\ AngleAdvanced
                    /\ rotationSpeed >= 0 => angle' >= angle]_vars

C15_Witness ==
    /\ lastOp.op = "frame"
    /\ isAutoRotating
    /\ rotationSpeed > 0
    /\ angle > 0
    /\ \E k \in 1..Len(log) : log[k].op = "cameraUpdate" /\ log[k].val > 0

\* C16: setState(getState()) leaves isAutoRotating, rotationSpeed, radius,
\* height, angle and time as they were.
C16_StateRoundTrips ==
    lastOp.op = "setState" =>
        \A i \in 1..Len(log) :
            /\ log[i].op = "isAutoRotating" =>
                   isAutoRotating = (log[i].val = 1)
            /\ log[i].op = "rotationSpeed" => rotationSpeed = log[i].val
            /\ log[i].op = "radius" => radius = log[i].val
            /\ log[i].op = "height" => height = log[i].val
            /\ log[i].op = "angle" => angle = log[i].val
            /\ log[i].op = "time" => time = log[i].val

\* C17: a call of dispose() leaves each of the two feedback materials
\* released once: the first call releases each once, a later call releases
\* nothing again.
C17_DisposeReleasesOnce ==
    /\ lastOp.op = "dispose" => disposed = [hover |-> 1, selected |-> 1]
    /\ disposed.hover <= 1
    /\ disposed.selected <= 1

\* the InteractionManager was handed no part list, or an empty one
NoParts == ~productParts.defined \/ productParts.list = {}

\* C18: with no part list or an empty one, a pointer move or click raises
\* nothing and hits nothing: hoveredPart and selectedPart are none
\* afterwards, and a move leaves the cursor "default" (a click never sets
\* the cursor, so it is not "pointer").
C18_NoPartsMeansNoHit ==
    (NoParts /\ lastOp.op \in {"move", "click"}) =>
        /\ thrown = ""
        /\ hoveredPart = None
        /\ selectedPart = None
        /\ lastOp.op = "move" => cursor = "default"
        /\ cursor # "pointer"

\* C19: an init() that fails shows its error once and leaves nothing behind:
\* no controller, no listener, no frame loop; no handler and no frame tick
\* runs after it, and init() does not run again.
C19_InitFailureIsTerminal ==
    /\ shell.errorsShown <= 1
    /\ shell.phase = "failed" =>
           /\ shell.errorsShown = 1
           /\ ~shell.controllers
           /\ ~shell.listeners
           /\ ~shell.animating
           /\ lastOp.op = "init"
           /\ rafQueue = << >>
    /\ lastOp.op \in {"frame", "move", "click"} => shell.phase = "running"

C19_Witness ==
    /\ shell.phase = "failed"
    /\ shell.errorsShown = 1
    /\ Did("showError")

\* C20: a part that is neither hovered nor selected shows the material the
\* scene builder gave it, and no mesh's stored original material is the
\* hover or the selection material.
C20_OriginalMaterialKept ==
    \A m \in Parts :
        /\ (m # hoveredPart /\ m # selectedPart) => material[m] = MatOriginal
        /\ originalMaterial[m] \notin {MatHover, MatSelected}

\* C21: in a frame in which a fly-to writes the camera position, update()
\* does not write it as well; and the frame in which the fly-to ends leaves
\* the camera at the fly-to's target.
C21_FlyToIsSingleWriter ==
    lastOp.op = "frame" =>
        /\ ~(Did("cameraUpdate") /\ Did("flyToStep"))
        /\ Did("flyToEnd") => cameraPosition = InitialPosition

\* C22: a part that is selected and not hovered has the selection material,
\* a part that is hovered and not selected has the hover material.
C22_LookMatchesSlots ==
    \A p \in Parts :
        /\ (selectedPart = p /\ hoveredPart # p) => material[p] = MatSelected
        /\ (hoveredPart = p /\ selectedPart # p) => material[p] = MatHover

\* C23: the step that completes a fly-to is followed at once by
\* syncAngleWithPosition, which sets angle, radius and height to the values
\* derived from the position the fly-to ended at (its target, the initial
\* position, for every fly-to the viewer starts); they are the orbit's
\* parameters when no other fly-to writes the camera later in that frame;
\* and a fly-to whose progress has reached 1 is not scheduled again.
C23_FlyToEndResynchronizes ==
    /\ \A i \in 1..Len(log) :
           log[i].op = "flyToEnd" =>
               /\ i + 4 <= Len(log)
               /\ log[i - 1].op = "flyToStep"
               /\ log[i + 1].op = "sync"
               /\ log[i + 2].op = "syncAngle"
               /\ log[i + 2].val
                      = Atan2Micro(InitialPosition.z, InitialPosition.x)
               /\ log[i + 3].op = "syncRadius"
               /\ log[i + 3].val
                      = Sqrt(InitialPosition.x * InitialPosition.x
                             + InitialPosition.z * InitialPosition.z)
               /\ log[i + 4].op = "syncHeight"
               /\ log[i + 4].val = InitialPosition.y
               /\ (\A j \in (i + 1)..Len(log) : log[j].op # "flyToStep")
                      => /\ cameraPosition = InitialPosition
                         /\ angle = Atan2Micro(cameraPosition.z,
                                               cameraPosition.x)
                         /\ radius = Sqrt(cameraPosition.x * cameraPosition.x
                                          + cameraPosition.z
                                            * cameraPosition.z)
                         /\ height = cameraPosition.y
    /\ \A k \in 1..Len(rafQueue) :
           rafQueue[k].kind = "flyTo"
               => rafQueue[k].elapsed < rafQueue[k].duration

C23_Witness ==
    /\ lastOp.op = "frame"
    /\ Did("flyToEnd")
    /\ cameraPosition = InitialPosition
    /\ angle # 0
    /\ rafQueue = << >>

\* no animation callback is scheduled, and every part that is neither
\* hovered nor selected has scale 1.0
AtRest ==
    /\ rafQueue = << >>
    /\ \A m \in Parts :
           (m # hoveredPart /\ m # selectedPart) => scale[m] = RestScale

\* C24: unless pointer events keep arriving or a part stays selected, the
\* frames bring the viewer to rest: no animation callback remains scheduled
\* and the parts that are neither hovered nor selected have scale 1.0; and
\* a frame leaves a viewer at rest at rest.
C24_TweensTerminate ==
    /\ []<>(\/ lastOp.op \in {"move", "click"}
            \/ selectedPart # None
            \/ AtRest)
    /\ [][(AtRest /\ lastOp'.op = "frame") => AtRest']_vars

C24_Witness ==
    /\ lastOp.op = "frame"
    /\ selectedPart = None
    /\ hoveredPart = None
    /\ originalMaterial[1] # MatUnset
    /\ tweenTarget[1] = RestScale
    /\ AtRest

\* C25: a pointer move that hits the hovered part leaves hoveredPart,
\* selectedPart, the altered set, every material and every stored original
\* material as they were, starts no tween and does not call the feedback
\* callback; a pointer move establishes a hover only on a part other than
\* the hovered one.
C25_MoveOnHoveredPartIsIdle ==
    [][/\ (/\ lastOp'.op = "move"
            /\ lastOp'.arg # None
            /\ lastOp'.arg = hoveredPart)
           => /\ hoveredPart' = hoveredPart
              /\ selectedPart' = selectedPart
              /\ highlightedMeshes' = highlightedMeshes
              /\ material' = material
              /\ originalMaterial' = originalMaterial
              /\ rafQueue' = rafQueue
              /\ tweenTarget' = tweenTarget
              /\ log' = << >>
       /\ (lastOp'.op = "move" /\ Did("highlight")')
          => lastOp'.arg # hoveredPart
      ]_vars

C25_Witness ==
    /\ lastOp.op = "move"
    /\ lastOp.arg # None
    /\ lastOp.arg = hoveredPart
    /\ log = << >>
    /\ material[hoveredPart] = MatHover

\* C26: a mesh's pulsing flag is up exactly when it is the selected part's
\* mesh, so at most one mesh has it up.
C26_PulsingIffSelected ==
    /\ \A m \in Parts : isPulsing[m] <=> selectedPart = m
    /\ Cardinality({m \in Parts : isPulsing[m]}) <= 1

C26_Witness ==
    /\ lastOp.op = "click"
    /\ selectedPart # None
    /\ isPulsing[selectedPart]
    /\ \E i \in 1..Len(log) :
           /\ log[i].op = "stopPulse"
           /\ log[i].mesh \notin {None, selectedPart}
           /\ ~isPulsing[log[i].mesh]

\* C27: a pointer move leaves selectedPart as it was, a click leaves
\* hoveredPart as it was, and a frame leaves hoveredPart, selectedPart, the
\* altered set and every mesh's material as they were.
C27_HandlersKeepToTheirSlot ==
    [][/\ lastOp'.op = "move" => selectedPart' = selectedPart
       /\ lastOp'.op = "click" => hoveredPart' = hoveredPart
       /\ lastOp'.op = "frame" =>
              /\ hoveredPart' = hoveredPart
              /\ selectedPart' = selectedPart
              /\ highlightedMeshes' = highlightedMeshes
              /\ material' = material
      ]_vars

C27_Witness ==
    /\ lastOp.op = "frame"
    /\ hoveredPart # None
    /\ selectedPart # None
    /\ hoveredPart # selectedPart
    /\ Did("emissive")

=============================================================================
